---- MODULE Spec2Model ----
(***************************************************************************)
(* snowcat: a one-shot Snowflake query CLI (package main).                 *)
(*                                                                         *)
(* The model follows the latest revision of main() present in the source   *)
(* tree (src/unnamed/part_002: zerolog, protocol check, CSV output).  One  *)
(* main goroutine runs parse -> validate -> signalHandlerContext -> read   *)
(* key -> build config -> DSN -> sql.Open -> QueryContext -> CSV loop ->   *)
(* deferred calls -> exit; one listener goroutine races it; the operating  *)
(* system delivers SIGINT at any moment.                                   *)
(*                                                                         *)
(* Text is a sequence of one-character strings, so that the CSV encoding   *)
(* is computed character by character as encoding/csv computes it.         *)
(*                                                                         *)
(* Collaborators outside the repository (ff, pemutil, gosnowflake,         *)
(* database/sql, os.Stdout) are modelled by their outcomes: an error       *)
(* return is a nondeterministic choice, a cancelled context makes the      *)
(* blocked query call and the row iterator fail, and the output sink       *)
(* accepts every byte handed to it.                                        *)
(***************************************************************************)
EXTENDS Integers, Sequences, FiniteSets, TLC

---------------------------------------------------------------------------
(* Bounds of the exploration                                               *)

\* most rows the row iterator yields in one run
MaxRows == 2

\* most SIGINTs the operating system delivers in one run
MaxSignals == 2

---------------------------------------------------------------------------
(* Program constants                                                       *)

\* bufio's default buffer, which csv.NewWriter(os.Stdout) allocates
BufSize == 4096

\* the query flag was not given on the command line or in the environment
Unset == "<unset>"

\* the fixed introspection query
DefaultQuery == "SELECT current_timestamp() as TIME, current_user() as USER, current_role() as ROLE;"

\* (*rsa.PrivateKey)(nil)
NilKey == [type |-> "nil", id |-> ""]

\* gosnowflake.Config{} before any field is assigned; AuthTypeSnowflake is
\* the zero value of AuthType
ZeroConfig ==
  [Account |-> "", User |-> "", Protocol |-> "",
   Authenticator |-> "AuthTypeSnowflake", Password |-> "", PrivateKey |-> NilKey]

\* no descriptor has been produced
NoDSN == [built |-> FALSE, cfg |-> ZeroConfig]

---------------------------------------------------------------------------
(* Inputs                                                                  *)

\* the values of the command-line flags after ff.Parse; the passcode is
\* varied where it is read, that is when a key file is named
FlagSpace ==
  {f \in [account     : {"", "fakesnow"},
          user        : {"", "fake"},
          password    : {"", "snow"},
          keyFile     : {"", "rsa_enc.p8", "ec.p8", "garbage.p8"},
          passcode    : {"", "secret"},
          authenticator : {"", "externalbrowser", "oauth"},
          protocol    : {"https", "http", "ftp"},
          query       : {Unset, "select 1"}] :
     f.keyFile = "" => f.passcode = ""}

\* what pemutil.Read finds on disk: an RSA key encrypted under "secret", an
\* unencrypted EC key, a file that is not PEM
KeyFiles ==
  [f \in {"rsa_enc.p8", "ec.p8", "garbage.p8"} |->
     CASE f = "rsa_enc.p8" -> [pem |-> TRUE,  type |-> "rsa", pass |-> "secret"]
       [] f = "ec.p8"      -> [pem |-> TRUE,  type |-> "ec",  pass |-> ""]
       [] OTHER            -> [pem |-> FALSE, type |-> "nil", pass |-> ""]]

\* pemutil.Read(path, WithPassword(passcode)): the decoded key or an error;
\* decryption is skipped for an unencrypted key whatever the passcode
PemRead(path, passcode) ==
  IF path \notin DOMAIN KeyFiles \/ ~KeyFiles[path].pem
    THEN [err |-> TRUE, key |-> NilKey]
  ELSE IF KeyFiles[path].pass # "" /\ KeyFiles[path].pass # passcode
    THEN [err |-> TRUE, key |-> NilKey]
  ELSE [err |-> FALSE, key |-> [type |-> KeyFiles[path].type, id |-> path]]

\* cell values a driver row may hold: SQL NULL, an integer, a string that
\* holds the delimiter and the quote character
NullV == [t |-> "nil", n |-> 0, s |-> <<>>]
IntV(n) == [t |-> "int", n |-> n, s |-> <<>>]
StrV(s) == [t |-> "str", n |-> 0, s |-> s]
CellValues == <<NullV, IntV(10), StrV(<<"a", ",", "\"">>)>>

\* the column-name lists a result set may carry
ColumnSets == {<< <<"1">> >>, << <<"A">>, <<"B">> >>}

\* the rows a result set with n columns may hold: two distinct rows that
\* between them hold every cell value
RowsOf(n) == {[i \in 1..n |-> CellValues[((k + i) % 3) + 1]] : k \in 0..1}

---------------------------------------------------------------------------
(* Pure functions                                                          *)

Digits == <<"0", "1", "2", "3", "4", "5", "6", "7", "8", "9">>

RECURSIVE Itoa(_)
\* the decimal digits of a natural number, as fmt prints an int
Itoa(n) == IF n < 10 THEN <<Digits[n + 1]>> ELSE Itoa(n \div 10) \o <<Digits[(n % 10) + 1]>>

\* fmt.Sprint(v) of one scanned cell
Sprint(v) ==
  CASE v.t = "nil" -> <<"<", "n", "i", "l", ">">>
    [] v.t = "int" -> Itoa(v.n)
    [] OTHER       -> v.s

\* stringValues: fmt.Sprint of every cell of the scanned row
StringValues(values) == [i \in 1..Len(values) |-> Sprint(values[i])]

\* csv.Writer.fieldNeedsQuotes with Comma = ','
fieldNeedsQuotes(field) ==
  IF field = <<>> THEN FALSE
  ELSE IF field = <<"\\", ".">> THEN TRUE
  ELSE IF \E i \in 1..Len(field) : field[i] \in {"\n", "\r", "\"", ","} THEN TRUE
  ELSE field[1] \in {" ", "\t"}

\* variant: a quote inside a quoted field is not doubled
quoteBody_NoEscape(field) == field

RECURSIVE quoteBody(_)
\* the inside of a quoted field with UseCRLF = false: a quote is doubled,
\* every other character is copied
quoteBody(field) ==
  IF field = <<>> THEN <<>>
  ELSE (IF field[1] = "\"" THEN <<"\"", "\"">> ELSE <<field[1]>>) \o quoteBody(Tail(field))

\* the bytes csv.Writer.Write emits for one field
encodeField(field) ==
  IF fieldNeedsQuotes(field) THEN <<"\"">> \o quoteBody(field) \o <<"\"">> ELSE field

RECURSIVE encodeRecord(_)
\* the bytes csv.Writer.Write emits for one record, without the line end
encodeRecord(record) ==
  IF record = <<>> THEN <<>>
  ELSE IF Len(record) = 1 THEN encodeField(record[1])
  ELSE encodeField(record[1]) \o <<",">> \o encodeRecord(Tail(record))

\* bufio.Writer under csv.Writer: bytes are appended to the buffer; whenever
\* more arrive than the buffer has room for, the full buffer goes to the sink
\* and the rest stays buffered
BufWrite(w, bytes) ==
  LET total == w.buf \o bytes
      k == IF Len(total) = 0 THEN 0 ELSE (Len(total) - 1) \div BufSize
  IN  [buf |-> SubSeq(total, k * BufSize + 1, Len(total)),
       out |-> w.out \o SubSeq(total, 1, k * BufSize)]

\* csv.Writer.Write(record) on the writer over os.Stdout
csvWrite(w, record) == BufWrite(w, encodeRecord(record) \o <<"\n">>)

\* csv.Writer.Flush(): everything buffered goes to the sink
csvFlush(w) == [buf |-> <<>>, out |-> w.out \o w.buf]

\* the (key, value) pairs of one log event
Event(level, msg, val) == [level |-> level, msg |-> msg, val |-> val]

---------------------------------------------------------------------------
(* State                                                                   *)

VARIABLES
  flags,      \* the parsed flag values
  pc,         \* position of the main goroutine
  exit,       \* "running", "zero" (main returned), "fatal" (os.Exit(1) from
              \* log.Fatal), "sigint" (killed by the default SIGINT action)
  stderr,     \* log events written so far
  stdout,     \* bytes that reached os.Stdout
  wbuf,       \* bytes held in the CSV writer's buffer
  keyReads,   \* calls of pemutil.Read so far
  rsaKey,     \* main's rsaKey
  cfg,        \* main's gosnowflake.Config
  dsn,        \* the descriptor gosnowflake.DSN returned
  db,         \* "none", "open", "closed"
  issued,     \* the SQL texts handed to db.QueryContext, in order
  rows,       \* the row iterator: "none", "open", "closed"
  columns,    \* the column names of the result set
  values,     \* the cells of the row most recently yielded by rows.Next
  produced,   \* the rows the iterator has yielded, in order
  iterErr,    \* what rows.Err() will report: "nil", "canceled", "driver"
  rowCount,   \* main's rowCount
  ctxDone,    \* the context of signalHandlerContext is cancelled
  registered, \* signal.Notify(sigs, os.Interrupt) is in force
  sigs,       \* signals queued in the channel sigs (capacity 1)
  lpc,        \* position of the listener goroutine
  sigLog      \* one entry per delivered SIGINT: where main was, what became of it

inVars   == <<flags>>
mainVars == <<pc, exit, stderr>>
outVars  == <<stdout, wbuf>>
connVars == <<keyReads, rsaKey, cfg, dsn, db, issued>>
rowVars  == <<rows, columns, values, produced, iterErr, rowCount>>
sigVars  == <<ctxDone, registered, sigs, lpc, sigLog>>
vars == <<flags, pc, exit, stderr, stdout, wbuf, keyReads, rsaKey, cfg, dsn, db,
          issued, rows, columns, values, produced, iterErr, rowCount, ctxDone,
          registered, sigs, lpc, sigLog>>

Init ==
  /\ flags \in FlagSpace
  /\ pc = "parse"
  /\ exit = "running"
  /\ stderr = <<>>
  /\ stdout = <<>>
  /\ wbuf = <<>>
  /\ keyReads = 0
  /\ rsaKey = NilKey
  /\ cfg = ZeroConfig
  /\ dsn = NoDSN
  /\ db = "none"
  /\ issued = <<>>
  /\ rows = "none"
  /\ columns = <<>>
  /\ values = <<>>
  /\ produced = <<>>
  /\ iterErr = "nil"
  /\ rowCount = 0
  /\ ctxDone = FALSE
  /\ registered = FALSE
  /\ sigs = 0
  /\ lpc = "none"
  /\ sigLog = <<>>

\* log.Fatal().Msg(msg): the event is written, then os.Exit(1); deferred
\* calls do not run and the listener goroutine dies with the process
Fatal(msg, val) ==
  /\ exit' = "fatal"
  /\ stderr' = Append(stderr, Event("fatal", msg, val))
  /\ pc' = pc

\* the main goroutine moves on to position p without logging
Goto(p) ==
  /\ pc' = p
  /\ UNCHANGED <<exit, stderr>>

\* the main goroutine is at position p and the process is alive
At(p) == exit = "running" /\ pc = p

---------------------------------------------------------------------------
(* The main goroutine: configuration                                       *)

\* ff.Parse(flag.CommandLine, os.Args[1:], ff.WithEnvVars())
ParseFlags ==
  /\ At("parse")
  /\ \E ok \in BOOLEAN :
       IF ok THEN Goto("validate") ELSE Fatal("Error parsing flags", "")
  /\ UNCHANGED <<inVars, outVars, connVars, rowVars, sigVars>>

\* variant: the user check is left out
MissingFlags_SkipsUser(f) ==
  IF f.account = "" THEN <<"snowflake.account">> ELSE <<>>

\* missingFlags after the account and user checks
MissingFlags(f) ==
  (IF f.account = "" THEN <<"snowflake.account">> ELSE <<>>)
  \o (IF f.user = "" THEN <<"snowflake.user">> ELSE <<>>)

\* authMethodCount
AuthMethodCount(f) ==
  (IF f.password # "" THEN 1 ELSE 0)
  + (IF f.keyFile # "" THEN 1 ELSE 0)
  + (IF f.authenticator # "" THEN 1 ELSE 0)

\* variant: two authentication methods are let through (> 2 for > 1)
CheckFlags_AllowsTwoMethods(f) ==
  LET missing == (IF f.account = "" THEN <<"snowflake.account">> ELSE <<>>)
                 \o (IF f.user = "" THEN <<"snowflake.user">> ELSE <<>>)
                 \o (IF AuthMethodCount(f) = 0 THEN <<"authentication method">> ELSE <<>>)
  IN  IF AuthMethodCount(f) > 2 THEN "Must provide exactly one authentication method"
      ELSE IF Len(missing) > 0 THEN "Missing required flags"
      ELSE IF f.protocol # "https" /\ f.protocol # "http"
        THEN "Protocol must be either 'http' or 'https'"
      ELSE ""

\* variant: the protocol check is left out, as in the revision before it
\* was added
CheckFlags_NoProtocolCheck(f) ==
  LET missing == (IF f.account = "" THEN <<"snowflake.account">> ELSE <<>>)
                 \o (IF f.user = "" THEN <<"snowflake.user">> ELSE <<>>)
                 \o (IF AuthMethodCount(f) = 0 THEN <<"authentication method">> ELSE <<>>)
  IN  IF AuthMethodCount(f) > 1 THEN "Must provide exactly one authentication method"
      ELSE IF Len(missing) > 0 THEN "Missing required flags"
      ELSE ""

\* the flag checks, in the order main makes them: the fatal message of the
\* first check that fails, or "" when all pass
CheckFlags(f) ==
  LET missing == MissingFlags(f)
                 \o (IF AuthMethodCount(f) = 0 THEN <<"authentication method">> ELSE <<>>)
  IN  IF AuthMethodCount(f) > 1 THEN "Must provide exactly one authentication method"
      ELSE IF Len(missing) > 0 THEN "Missing required flags"
      ELSE IF f.protocol # "https" /\ f.protocol # "http"
        THEN "Protocol must be either 'http' or 'https'"
      ELSE ""

\* variant: signalHandlerContext is called above the flag checks
Validate_AfterHandler ==
  /\ At("validate")
  /\ ctxDone' = FALSE
  /\ sigs' = 0
  /\ registered' = TRUE
  /\ lpc' = "select"
  /\ IF CheckFlags(flags) # "" THEN Fatal(CheckFlags(flags), "") ELSE Goto("readkey")
  /\ UNCHANGED <<inVars, outVars, connVars, rowVars, sigLog>>

\* main, from "Check flags" to the protocol check
Validate ==
  /\ At("validate")
  /\ IF CheckFlags(flags) # "" THEN Fatal(CheckFlags(flags), "") ELSE Goto("sigctx")
  /\ UNCHANGED <<inVars, outVars, connVars, rowVars, sigVars>>

\* ctx, cancel := signalHandlerContext(ctx); defer cancel(): the context is
\* made, the handler registered, the listener goroutine started
SignalHandlerContext ==
  /\ At("sigctx")
  /\ ctxDone' = FALSE
  /\ sigs' = 0
  /\ registered' = TRUE
  /\ lpc' = "select"
  /\ Goto("readkey")
  /\ UNCHANGED <<inVars, outVars, connVars, rowVars, sigLog>>

\* variant: the result of the type assertion is not looked at
ReadPrivateKey_NoTypeCheck ==
  /\ At("readkey")
  /\ IF flags.keyFile # ""
       THEN LET r == PemRead(flags.keyFile, flags.passcode)
            IN  /\ keyReads' = keyReads + 1
                /\ IF r.err
                     THEN Fatal("Failed parsing private key!", "") /\ rsaKey' = rsaKey
                     ELSE Goto("config")
                          /\ rsaKey' = (IF r.key.type = "rsa" THEN r.key ELSE NilKey)
       ELSE Goto("config") /\ UNCHANGED <<keyReads, rsaKey>>
  /\ UNCHANGED <<inVars, outVars, cfg, dsn, db, issued, rowVars, sigVars>>

\* the key file is read and decoded when the flag is set
ReadPrivateKey ==
  /\ At("readkey")
  /\ IF flags.keyFile # ""
       THEN LET r == PemRead(flags.keyFile, flags.passcode)
            IN  /\ keyReads' = keyReads + 1
                /\ IF r.err
                     THEN Fatal("Failed parsing private key!", "") /\ rsaKey' = rsaKey
                   ELSE IF r.key.type # "rsa"
                     THEN Fatal("Type assertion to *rsa.PrivateKey failed!", "")
                          /\ rsaKey' = NilKey
                   ELSE Goto("config") /\ rsaKey' = r.key
       ELSE Goto("config") /\ UNCHANGED <<keyReads, rsaKey>>
  /\ UNCHANGED <<inVars, outVars, cfg, dsn, db, issued, rowVars, sigVars>>

\* variant: the password branch sets the authenticator and forgets
\* cfg.Password
BuildConfig_PasswordNotCopied ==
  /\ At("config")
  /\ LET base == [ZeroConfig EXCEPT !.Account = flags.account, !.User = flags.user,
                                    !.Protocol = flags.protocol]
     IN  IF flags.password # ""
           THEN /\ cfg' = [base EXCEPT !.Authenticator = "AuthTypeSnowflake"]
                /\ Goto("dsn")
         ELSE IF flags.keyFile # ""
           THEN /\ cfg' = [base EXCEPT !.Authenticator = "AuthTypeJwt",
                                       !.PrivateKey = rsaKey]
                /\ Goto("dsn")
         ELSE IF flags.authenticator = "externalbrowser"
           THEN /\ cfg' = [base EXCEPT !.Authenticator = "AuthTypeExternalBrowser"]
                /\ Goto("dsn")
         ELSE /\ cfg' = base
              /\ Fatal("Invalid authenticator", flags.authenticator)
  /\ UNCHANGED <<inVars, outVars, keyReads, rsaKey, dsn, db, issued, rowVars, sigVars>>

\* variant: any authenticator name selects the browser authenticator
BuildConfig_AnyAuthenticator ==
  /\ At("config")
  /\ LET base == [ZeroConfig EXCEPT !.Account = flags.account, !.User = flags.user,
                                    !.Protocol = flags.protocol]
     IN  IF flags.password # ""
           THEN /\ cfg' = [base EXCEPT !.Authenticator = "AuthTypeSnowflake",
                                       !.Password = flags.password]
                /\ Goto("dsn")
         ELSE IF flags.keyFile # ""
           THEN /\ cfg' = [base EXCEPT !.Authenticator = "AuthTypeJwt",
                                       !.PrivateKey = rsaKey]
                /\ Goto("dsn")
         ELSE /\ cfg' = [base EXCEPT !.Authenticator = "AuthTypeExternalBrowser"]
              /\ Goto("dsn")
  /\ UNCHANGED <<inVars, outVars, keyReads, rsaKey, dsn, db, issued, rowVars, sigVars>>

\* cfg := gosnowflake.Config{...} and the choice of the authenticator
BuildConfig ==
  /\ At("config")
  /\ LET base == [ZeroConfig EXCEPT !.Account = flags.account, !.User = flags.user,
                                    !.Protocol = flags.protocol]
     IN  IF flags.password # ""
           THEN /\ cfg' = [base EXCEPT !.Authenticator = "AuthTypeSnowflake",
                                       !.Password = flags.password]
                /\ Goto("dsn")
         ELSE IF flags.keyFile # ""
           THEN /\ cfg' = [base EXCEPT !.Authenticator = "AuthTypeJwt",
                                       !.PrivateKey = rsaKey]
                /\ Goto("dsn")
         ELSE IF flags.authenticator = "externalbrowser"
           THEN /\ cfg' = [base EXCEPT !.Authenticator = "AuthTypeExternalBrowser"]
                /\ Goto("dsn")
         ELSE /\ cfg' = base
              /\ Fatal("Invalid authenticator", flags.authenticator)
  /\ UNCHANGED <<inVars, outVars, keyReads, rsaKey, dsn, db, issued, rowVars, sigVars>>

\* dsn, err := gosnowflake.DSN(&cfg)
MakeDSN ==
  /\ At("dsn")
  /\ \E ok \in BOOLEAN :
       IF ok THEN dsn' = [built |-> TRUE, cfg |-> cfg] /\ Goto("open")
       ELSE dsn' = dsn /\ Fatal("Failed to create DSN from config", "")
  /\ UNCHANGED <<inVars, outVars, keyReads, rsaKey, cfg, db, issued, rowVars, sigVars>>

\* db, err := sql.Open("snowflake", dsn); defer db.Close()
OpenDB ==
  /\ At("open")
  /\ \E ok \in BOOLEAN :
       IF ok THEN db' = "open" /\ Goto("query")
       ELSE db' = db /\ Fatal("Error connecting to snowflake", "")
  /\ UNCHANGED <<inVars, outVars, keyReads, rsaKey, cfg, dsn, issued, rowVars, sigVars>>

---------------------------------------------------------------------------
(* The main goroutine: query and output                                    *)

\* the value of the query flag: the text given, or the flag's default
QueryText(f) == IF f.query = Unset THEN DefaultQuery ELSE f.query

\* variant: the query flag is not consulted, the fixed query is sent
QueryContext_FixedQuery ==
  /\ At("query")
  /\ stderr' = Append(stderr, Event("debug", "Querying snowflake", DefaultQuery))
  /\ issued' = Append(issued, DefaultQuery)
  /\ pc' = "inflight"
  /\ UNCHANGED <<inVars, exit, outVars, keyReads, rsaKey, cfg, dsn, db, rowVars, sigVars>>

\* log.Debug "Querying snowflake", then db.QueryContext(ctx, query) is
\* entered: the statement is with the driver and main blocks
QueryContext ==
  /\ At("query")
  /\ stderr' = Append(stderr, Event("debug", "Querying snowflake", QueryText(flags)))
  /\ issued' = Append(issued, QueryText(flags))
  /\ pc' = "inflight"
  /\ UNCHANGED <<inVars, exit, outVars, keyReads, rsaKey, cfg, dsn, db, rowVars, sigVars>>

\* variant: the call is made with context.Background(), so a cancelled
\* context does not fail it
QueryReturn_BackgroundContext ==
  /\ At("inflight")
  /\ \E ok \in BOOLEAN :
       IF ok THEN rows' = "open" /\ Goto("columns")
       ELSE rows' = rows /\ Fatal("Failed querying snowflake!", "driver")
  /\ UNCHANGED <<inVars, outVars, connVars, columns, values, produced, iterErr,
                 rowCount, sigVars>>

\* db.QueryContext returns: with the context's error once the context is
\* cancelled, otherwise with a row iterator or an error of the driver;
\* defer rows.Close()
QueryReturn ==
  /\ At("inflight")
  /\ IF ctxDone
       THEN Fatal("Failed querying snowflake!", "context canceled") /\ rows' = rows
       ELSE \E ok \in BOOLEAN :
              IF ok THEN rows' = "open" /\ Goto("columns")
              ELSE rows' = rows /\ Fatal("Failed querying snowflake!", "driver")
  /\ UNCHANGED <<inVars, outVars, connVars, columns, values, produced, iterErr,
                 rowCount, sigVars>>

\* columns, err := rows.Columns()
GetColumns ==
  /\ At("columns")
  /\ \/ \E cols \in ColumnSets : columns' = cols /\ Goto("header")
     \/ columns' = columns /\ Fatal("Error getting column names!", "")
  /\ UNCHANGED <<inVars, outVars, connVars, rows, values, produced, iterErr,
                 rowCount, sigVars>>

\* w := csv.NewWriter(os.Stdout); defer w.Flush(); w.Write(columns); the
\* value slots are allocated and rowCount starts at 0
WriteHeader ==
  /\ At("header")
  /\ LET w == csvWrite([buf |-> <<>>, out |-> stdout], columns)
     IN  /\ wbuf' = w.buf
         /\ stdout' = w.out
  /\ values' = [i \in 1..Len(columns) |-> NullV]
  /\ rowCount' = 0
  /\ Goto("next")
  /\ UNCHANGED <<inVars, connVars, rows, columns, produced, iterErr, sigVars>>

\* rows.Next(): false with the context's error once the context is cancelled;
\* otherwise the driver yields the next row, reports the end, or fails
RowsNext ==
  /\ At("next")
  /\ IF ctxDone
       THEN /\ iterErr' = "canceled"
            /\ rows' = "closed"
            /\ produced' = produced
            /\ Goto("rowserr")
       ELSE \/ /\ Len(produced) < MaxRows
               /\ \E r \in RowsOf(Len(columns)) : produced' = Append(produced, r)
               /\ Goto("scan")
               /\ UNCHANGED <<iterErr, rows>>
            \/ /\ rows' = "closed"
               /\ \E e \in {"nil", "driver"} : iterErr' = e
               /\ produced' = produced
               /\ Goto("rowserr")
  /\ UNCHANGED <<inVars, outVars, connVars, columns, values, rowCount, sigVars>>

\* the loop body: rows.Scan(valuePtrs...), fmt.Sprint of every cell,
\* w.Write(stringValues), rowCount++
ScanAndWrite ==
  /\ At("scan")
  /\ \E ok \in BOOLEAN :
       IF ok
         THEN LET row == produced[Len(produced)]
                  w == csvWrite([buf |-> wbuf, out |-> stdout], StringValues(row))
              IN  /\ values' = row
                  /\ wbuf' = w.buf
                  /\ stdout' = w.out
                  /\ rowCount' = rowCount + 1
                  /\ Goto("next")
         ELSE /\ Fatal("Error scanning rows!", "")
              /\ UNCHANGED <<values, outVars, rowCount>>
  /\ UNCHANGED <<inVars, connVars, rows, columns, produced, iterErr, sigVars>>

\* if err := rows.Err(); err != nil
RowsErr ==
  /\ At("rowserr")
  /\ IF iterErr # "nil" THEN Fatal("Error calling rows.Err!", iterErr) ELSE Goto("close")
  /\ UNCHANGED <<inVars, outVars, connVars, rowVars, sigVars>>

\* if err := rows.Close(); err != nil
RowsClose ==
  /\ At("close")
  /\ rows' = "closed"
  /\ \E ok \in BOOLEAN :
       IF ok THEN Goto("log") ELSE Fatal("Error calling rows.Close!", "")
  /\ UNCHANGED <<inVars, outVars, connVars, columns, values, produced, iterErr,
                 rowCount, sigVars>>

\* log.Debug().Int("rows", rowCount).Msg("Successfully pulled results ...")
LogRowCount ==
  /\ At("log")
  /\ stderr' = Append(stderr, Event("debug", "Successfully pulled results from snowflake",
                                    ToString(rowCount)))
  /\ pc' = "defer_flush"
  /\ UNCHANGED <<inVars, exit, outVars, connVars, rowVars, sigVars>>

\* main returns; the deferred calls run last-in first-out: w.Flush()
DeferFlush ==
  /\ At("defer_flush")
  /\ LET w == csvFlush([buf |-> wbuf, out |-> stdout])
     IN  /\ wbuf' = w.buf
         /\ stdout' = w.out
  /\ Goto("defer_rows")
  /\ UNCHANGED <<inVars, connVars, rowVars, sigVars>>

\* deferred rows.Close()
DeferRowsClose ==
  /\ At("defer_rows")
  /\ rows' = "closed"
  /\ Goto("defer_db")
  /\ UNCHANGED <<inVars, outVars, connVars, columns, values, produced, iterErr,
                 rowCount, sigVars>>

\* deferred db.Close()
DeferDBClose ==
  /\ At("defer_db")
  /\ db' = "closed"
  /\ Goto("defer_cancel")
  /\ UNCHANGED <<inVars, outVars, keyReads, rsaKey, cfg, dsn, issued, rowVars, sigVars>>

\* variant: cancel is not deferred, so main returns with the context live
DeferCancel_NotDeferred ==
  /\ At("defer_cancel")
  /\ Goto("return")
  /\ UNCHANGED <<inVars, outVars, connVars, rowVars, sigVars>>

\* deferred cancel()
DeferCancel ==
  /\ At("defer_cancel")
  /\ ctxDone' = TRUE
  /\ Goto("return")
  /\ UNCHANGED <<inVars, outVars, connVars, rowVars, registered, sigs, lpc, sigLog>>

\* main has returned: the process exits with status 0
Exit ==
  /\ At("return")
  /\ exit' = "zero"
  /\ UNCHANGED <<inVars, pc, stderr, outVars, connVars, rowVars, sigVars>>

---------------------------------------------------------------------------
(* The listener goroutine of signalHandlerContext                          *)

\* case sig := <-sigs: log.Warn "Caught signal"
ListenerCatch ==
  /\ exit = "running"
  /\ lpc = "select"
  /\ sigs > 0
  /\ sigs' = sigs - 1
  /\ stderr' = Append(stderr, Event("warn", "Caught signal", "interrupt"))
  /\ lpc' = "cancel"
  /\ UNCHANGED <<inVars, pc, exit, outVars, connVars, rowVars, ctxDone, registered, sigLog>>

\* cancel() in the signal case
ListenerCancel ==
  /\ exit = "running"
  /\ lpc = "cancel"
  /\ ctxDone' = TRUE
  /\ lpc' = "stop"
  /\ UNCHANGED <<inVars, mainVars, outVars, connVars, rowVars, registered, sigs, sigLog>>

\* case <-ctx.Done()
ListenerCtxDone ==
  /\ exit = "running"
  /\ lpc = "select"
  /\ ctxDone
  /\ lpc' = "stop"
  /\ UNCHANGED <<inVars, mainVars, outVars, connVars, rowVars, ctxDone, registered,
                 sigs, sigLog>>

\* variant: the handler is left in place and the goroutine waits again (the
\* alternative the comment in signalHandlerContext mentions)
ListenerStop_Rearms ==
  /\ exit = "running"
  /\ lpc = "stop"
  /\ lpc' = "select"
  /\ UNCHANGED <<inVars, mainVars, outVars, connVars, rowVars, ctxDone, registered,
                 sigs, sigLog>>

\* defer signal.Stop(sigs): the handler is removed and the goroutine ends
ListenerStop ==
  /\ exit = "running"
  /\ lpc = "stop"
  /\ registered' = FALSE
  /\ lpc' = "done"
  /\ UNCHANGED <<inVars, mainVars, outVars, connVars, rowVars, ctxDone, sigs, sigLog>>

---------------------------------------------------------------------------
(* The operating system                                                    *)

\* what becomes of a SIGINT: with the handler registered os/signal sends it
\* to sigs without blocking, so it is queued when the channel has room and
\* dropped when it is full; with no handler the default action ends the
\* process
Disposition ==
  IF registered THEN (IF sigs < 1 THEN "queued" ELSE "dropped") ELSE "default"

\* a SIGINT is delivered to the process
Interrupt ==
  /\ exit = "running"
  /\ Len(sigLog) < MaxSignals
  /\ sigLog' = Append(sigLog, [inflight |-> pc = "inflight", disp |-> Disposition])
  /\ sigs' = IF Disposition = "queued" THEN sigs + 1 ELSE sigs
  /\ exit' = IF Disposition = "default" THEN "sigint" ELSE exit
  /\ UNCHANGED <<inVars, pc, stderr, outVars, connVars, rowVars, ctxDone, registered, lpc>>

---------------------------------------------------------------------------
(* Specification                                                          *)

Next ==
  \/ ParseFlags
  \/ Validate
  \/ SignalHandlerContext
  \/ ReadPrivateKey
  \/ BuildConfig
  \/ MakeDSN
  \/ OpenDB
  \/ QueryContext
  \/ QueryReturn
  \/ GetColumns
  \/ WriteHeader
  \/ RowsNext
  \/ ScanAndWrite
  \/ RowsErr
  \/ RowsClose
  \/ LogRowCount
  \/ DeferFlush
  \/ DeferRowsClose
  \/ DeferDBClose
  \/ DeferCancel
  \/ Exit
  \/ ListenerCatch
  \/ ListenerCancel
  \/ ListenerCtxDone
  \/ ListenerStop
  \/ Interrupt

Spec == Init /\ [][Next]_vars

---------------------------------------------------------------------------
(* Vocabulary of the properties                                            *)

\* positions of main up to and including validation
Validating == {"parse", "validate"}

\* the log holds an event with this message
Logged(msg) == \E i \in 1..Len(stderr) : stderr[i].msg = msg

\* the events of the log with this message
EventsOf(msg) == {i \in 1..Len(stderr) : stderr[i].msg = msg}

\* the process ended in log.Fatal with this message
DiedWith(msg) == exit = "fatal" /\ stderr # <<>> /\ stderr[Len(stderr)].msg = msg

RECURSIVE ReadCSV(_, _, _, _, _)
\* a reader of comma-separated text: b the bytes left, q inside a quoted
\* field, f the field so far, r the record so far, rs the records read
ReadCSV(b, q, f, r, rs) ==
  IF b = <<>> THEN (IF f = <<>> /\ r = <<>> THEN rs ELSE Append(rs, Append(r, f)))
  ELSE LET c == Head(b)
           t == Tail(b)
       IN  IF q
             THEN IF c = "\""
                    THEN IF t # <<>> /\ Head(t) = "\""
                           THEN ReadCSV(Tail(t), TRUE, Append(f, "\""), r, rs)
                           ELSE ReadCSV(t, FALSE, f, r, rs)
                    ELSE ReadCSV(t, TRUE, Append(f, c), r, rs)
           ELSE IF c = "\"" THEN ReadCSV(t, TRUE, f, r, rs)
           ELSE IF c = "," THEN ReadCSV(t, FALSE, <<>>, Append(r, f), rs)
           ELSE IF c = "\n" THEN ReadCSV(t, FALSE, <<>>, <<>>, Append(rs, Append(r, f)))
           ELSE ReadCSV(t, FALSE, Append(f, c), r, rs)

\* the records a reader finds on the standard output
Records(bytes) == ReadCSV(bytes, FALSE, <<>>, <<>>, <<>>)

\* the header followed by the first n rows the iterator produced, each cell
\* as fmt.Sprint prints it
Table(n) == <<columns>> \o [i \in 1..n |-> StringValues(produced[i])]

---------------------------------------------------------------------------
(* Properties                                                              *)

\* C1: with zero, or with two or more, of password, key file and
\* authenticator set, the run never gets past validation: it never exits
\* zero, when it dies in validation it dies with one of the two
\* configuration messages, and no descriptor is built, no connection opened
\* and no statement issued.
C1_AuthCountRejected ==
  AuthMethodCount(flags) # 1 =>
    /\ pc \in Validating
    /\ exit # "zero"
    /\ (exit = "fatal" /\ pc = "validate") =>
         \/ (AuthMethodCount(flags) > 1
             /\ DiedWith("Must provide exactly one authentication method"))
         \/ (AuthMethodCount(flags) = 0 /\ DiedWith("Missing required flags"))
    /\ ~dsn.built /\ db = "none" /\ issued = <<>>

\* a run with two authentication methods (and nothing else wrong) has died
\* in validation
C1_Witness ==
  /\ AuthMethodCount(flags) = 2 /\ flags.account # "" /\ flags.user # ""
  /\ flags.protocol = "https"
  /\ pc = "validate" /\ exit = "fatal"

\* C2: with account or user empty the run never gets past validation,
\* whatever the other flags are: it dies there and never reaches connect.
C2_AccountUserRequired ==
  (flags.account = "" \/ flags.user = "") =>
    /\ pc \in Validating
    /\ exit # "zero"
    /\ (exit = "fatal" /\ pc = "validate") =>
         \/ DiedWith("Missing required flags")
         \/ (AuthMethodCount(flags) > 1
             /\ DiedWith("Must provide exactly one authentication method"))
    /\ ~registered /\ ~dsn.built /\ db = "none"

\* a run with one valid authentication method and no user has died in
\* validation
C2_Witness ==
  /\ flags.user = "" /\ flags.account # "" /\ AuthMethodCount(flags) = 1
  /\ flags.protocol = "https"
  /\ pc = "validate" /\ DiedWith("Missing required flags")

\* C3: with a protocol other than http and https the run never gets past
\* validation, and a descriptor or connection only ever exists with protocol
\* http or https.
C3_ProtocolChecked ==
  /\ flags.protocol \notin {"http", "https"} =>
       /\ pc \in Validating
       /\ exit # "zero"
       /\ ~dsn.built /\ db = "none"
  /\ (dsn.built \/ db # "none") => cfg.Protocol \in {"http", "https"}

\* a run whose only fault is the protocol has died on the protocol check
C3_Witness ==
  /\ flags.protocol = "ftp"
  /\ DiedWith("Protocol must be either 'http' or 'https'")

\* C4: a configuration that passes validation with the password set never
\* reads a key file, and its descriptor carries the password authenticator,
\* the given password and no private key.
C4_PasswordConfig ==
  (CheckFlags(flags) = "" /\ flags.password # "") =>
    /\ keyReads = 0
    /\ rsaKey = NilKey
    /\ dsn.built =>
         /\ dsn.cfg.Authenticator = "AuthTypeSnowflake"
         /\ dsn.cfg.Password = flags.password
         /\ dsn.cfg.PrivateKey = NilKey

\* a password configuration has had its descriptor built
C4_Witness == CheckFlags(flags) = "" /\ flags.password # "" /\ dsn.built /\ db = "open"

\* C5: in a key-file configuration, a key that cannot be read or decrypted,
\* or that is not an RSA key, stops the run at the key step with nothing
\* built, opened or issued; a key that decodes is the one in the descriptor,
\* under the JWT authenticator.
C5_KeyFileConfig ==
  (CheckFlags(flags) = "" /\ flags.keyFile # "") =>
    LET r == PemRead(flags.keyFile, flags.passcode)
    IN  IF r.err \/ r.key.type # "rsa"
          THEN /\ pc \in Validating \cup {"sigctx", "readkey"}
               /\ exit # "zero"
               /\ cfg = ZeroConfig /\ ~dsn.built /\ db = "none" /\ issued = <<>>
               /\ (exit = "fatal" /\ pc = "readkey") =>
                    \/ (r.err /\ DiedWith("Failed parsing private key!"))
                    \/ (~r.err /\ DiedWith("Type assertion to *rsa.PrivateKey failed!"))
          ELSE dsn.built =>
                 /\ dsn.cfg.Authenticator = "AuthTypeJwt"
                 /\ dsn.cfg.PrivateKey = [type |-> "rsa", id |-> flags.keyFile]
                 /\ dsn.cfg.Password = ""

\* the encrypted key was read with the wrong passphrase and the run died
C5_Witness ==
  /\ CheckFlags(flags) = "" /\ flags.keyFile = "rsa_enc.p8" /\ flags.passcode # "secret"
  /\ keyReads = 1 /\ DiedWith("Failed parsing private key!")

\* C6 as stated: a run in which an interrupt was delivered while the query
\* call was in flight never exits zero.
C6_InterruptInFlightNeverZero ==
  exit = "zero" => ~(\E i \in 1..Len(sigLog) : sigLog[i].inflight)

\* C6 as amended: the first interrupt, when it arrives while the query
\* call is in flight, is queued for the listener; the context is only ever
\* cancelled during the call after "Caught signal" was logged; and once the
\* context is cancelled while the call is in flight, main does not get past
\* the call and the process does not exit zero (the call returns the
\* context's error, which is fatal).
C6_CancelInFlightIsFatal ==
  /\ [](\A i \in 1..Len(sigLog) :
          (i = 1 /\ sigLog[i].inflight) => sigLog[i].disp = "queued")
  /\ []((pc = "inflight" /\ ctxDone) => Logged("Caught signal"))
  /\ []((pc = "inflight" /\ exit = "fatal" /\ ctxDone) =>
          DiedWith("Failed querying snowflake!"))
  /\ [][(pc = "inflight" /\ ctxDone) => (pc' = "inflight" /\ exit' # "zero")]_vars
  /\ [][(pc = "inflight" /\ ctxDone /\ pc' = pc /\ stderr' # stderr) =>
          exit' = "fatal"]_vars

\* one interrupt arrived during the call, the listener logged it and
\* cancelled the context, and the call failed
C6_Witness ==
  /\ Len(sigLog) = 1 /\ sigLog[1].inflight /\ sigLog[1].disp = "queued"
  /\ Logged("Caught signal") /\ ctxDone
  /\ pc = "inflight" /\ DiedWith("Failed querying snowflake!")

\* C7: an interrupt that arrives after the listener has received the
\* first one gets the default action: it ends the process at once, and is
\* neither queued for nor dropped by the program's handler.
C7_SecondInterruptDefault ==
  [][(Len(sigLog') > Len(sigLog) /\ Logged("Caught signal")) =>
       (sigLog'[Len(sigLog')].disp = "default" /\ exit' = "sigint")]_vars

\* C8: when the process has exited zero, the standard output reads back as
\* the header followed by the rows the iterator produced, in order, each
\* with one cell per column; nothing is left in the writer; and the one
\* row-count event logs the number of rows produced.
C8_OutputIsHeaderThenRows ==
  exit = "zero" =>
    /\ Records(stdout) = Table(Len(produced))
    /\ Len(Records(stdout)) = Len(produced) + 1
    /\ \A i \in 1..Len(Records(stdout)) : Len(Records(stdout)[i]) = Len(columns)
    /\ wbuf = <<>>
    /\ rowCount = Len(produced)
    /\ Cardinality(EventsOf("Successfully pulled results from snowflake")) = 1
    /\ \A i \in EventsOf("Successfully pulled results from snowflake") :
         stderr[i].val = ToString(Len(produced))

\* a run that produced two different rows of two columns has exited zero
C8_Witness ==
  /\ exit = "zero"
  /\ Len(columns) = 2 /\ Len(produced) = 2 /\ produced[1] # produced[2]

\* the records handed to the CSV writer so far
Written ==
  IF pc \in {"parse", "validate", "sigctx", "readkey", "config", "dsn", "open",
             "query", "inflight", "columns", "header"}
    THEN <<>>
    ELSE Table(rowCount)

\* C9: when the process has died of an error after data rows were written
\* to the CSV writer, the header and every one of those rows are on the
\* standard output.
C9_WrittenRowsSurviveFatal ==
  (exit = "fatal" /\ rowCount > 0) => Records(stdout) = Written

ListenerRank ==
  CASE lpc = "none"   -> 0
    [] lpc = "select" -> 1
    [] lpc = "cancel" -> 2
    [] lpc = "stop"   -> 3
    [] OTHER          -> 4

\* C11: the listener starts armed and never returns to its wait once it has
\* left it; it leaves on a received interrupt or on a cancelled context; it
\* enters the cancel() of the signal case only from the wait, so at most
\* once; and "Caught signal" is logged at most once however many interrupts
\* are delivered.
C11_ListenerOneShot ==
  /\ [][ListenerRank' >= ListenerRank]_vars
  /\ [][(lpc = "none" /\ lpc' # lpc) => lpc' = "select"]_vars
  /\ [][(lpc = "select" /\ lpc' # lpc) =>
          \/ (lpc' = "cancel" /\ sigs > 0 /\ sigs' = sigs - 1)
          \/ (lpc' = "stop" /\ ctxDone)]_vars
  /\ [][(lpc' = "cancel" /\ lpc # "cancel") => lpc = "select"]_vars
  /\ [][(ctxDone' /\ ~ctxDone /\ lpc' # lpc) => (lpc = "cancel" /\ lpc' = "stop")]_vars
  /\ [](Cardinality(EventsOf("Caught signal")) <= 1)
  /\ []((lpc \in {"none", "select"}) => ~Logged("Caught signal"))

\* two interrupts were delivered, the listener has ended, and the signal was
\* logged once
C11_Witness ==
  /\ Len(sigLog) = 2
  /\ lpc = "done"
  /\ Cardinality(EventsOf("Caught signal")) = 1
  /\ ctxDone

\* main's deferred cancel has run and no interrupt has been delivered
CompletedUninterrupted == pc = "return" /\ sigLog = <<>>

\* C12: once main's deferred cancel has run with no interrupt delivered,
\* the context is cancelled, nothing is queued and no signal was logged; the
\* listener, while the process lives, can always take its next step; every
\* step it takes leaves the wait or removes the handler, without logging;
\* and once it has ended the handler is gone, so the next interrupt gets the
\* default action and ends the process.
C12_ListenerTornDown ==
  /\ [](CompletedUninterrupted =>
          /\ ctxDone /\ sigs = 0 /\ ~Logged("Caught signal")
          /\ lpc \in {"select", "stop", "done"}
          /\ (lpc = "done") = ~registered)
  /\ []((CompletedUninterrupted /\ exit = "running" /\ lpc # "done") =>
          ENABLED (ListenerCtxDone \/ ListenerStop))
  /\ []((CompletedUninterrupted /\ exit = "running") => ~ENABLED ListenerCatch)
  /\ [][(CompletedUninterrupted /\ lpc' # lpc) =>
          /\ stderr' = stderr
          /\ \/ (lpc = "select" /\ lpc' = "stop" /\ registered')
             \/ (lpc = "stop" /\ lpc' = "done" /\ ~registered')]_vars
  /\ [][(CompletedUninterrupted /\ lpc = "done" /\ Len(sigLog') > Len(sigLog)) =>
          (sigLog'[1].disp = "default" /\ exit' = "sigint" /\ stderr' = stderr)]_vars

\* main completed without an interrupt, the listener ended without logging,
\* and an interrupt that came afterwards ended the process by default
C12_Witness ==
  /\ pc = "return" /\ lpc = "done" /\ ~registered
  /\ ~Logged("Caught signal")
  /\ Len(sigLog) = 1 /\ sigLog[1].disp = "default" /\ exit = "sigint"

\* C13: in a run whose flags fail validation, at every moment the signal
\* handler has not been installed and the listener not started, no key file
\* has been read, no configuration or descriptor built, no connection
\* opened, no statement issued, and nothing written to the CSV writer or the
\* standard output; the only log event is the fatal one.
C13_ValidationHasNoSideEffects ==
  CheckFlags(flags) # "" =>
    /\ pc \in Validating
    /\ ~registered /\ lpc = "none" /\ sigs = 0 /\ ~ctxDone
    /\ keyReads = 0 /\ rsaKey = NilKey
    /\ cfg = ZeroConfig /\ ~dsn.built /\ db = "none" /\ issued = <<>>
    /\ rows = "none"
    /\ stdout = <<>> /\ wbuf = <<>>
    /\ Len(stderr) <= 1
    /\ (stderr # <<>>) => exit = "fatal"

\* a run that names a key file and a bad protocol has died in validation
\* with the key file unread
C13_Witness ==
  /\ flags.keyFile = "rsa_enc.p8" /\ flags.passcode = "secret"
  /\ AuthMethodCount(flags) = 1 /\ flags.account # "" /\ flags.user # ""
  /\ flags.protocol = "ftp"
  /\ pc = "validate" /\ exit = "fatal" /\ keyReads = 0

\* the authenticator name is the only authentication input set
AuthenticatorOnly == flags.password = "" /\ flags.keyFile = "" /\ flags.authenticator # ""

\* C14: with the authenticator name the only authentication input and its
\* value not "externalbrowser", the run is not stopped by the
\* authentication-count check; it never gets past the choice of the
\* authenticator, where it dies with "Invalid authenticator"; no descriptor
\* is built and no connection opened.  The browser authenticator is in the
\* configuration only when the name is exactly "externalbrowser" and it is
\* the only authentication input.
C14_InvalidAuthenticatorRejected ==
  /\ (AuthenticatorOnly /\ flags.authenticator # "externalbrowser") =>
       /\ AuthMethodCount(flags) = 1
       /\ ~DiedWith("Must provide exactly one authentication method")
       /\ pc \in Validating \cup {"sigctx", "readkey", "config"}
       /\ exit # "zero"
       /\ (CheckFlags(flags) = "" /\ exit = "fatal" /\ pc \notin Validating) =>
            (pc = "config" /\ DiedWith("Invalid authenticator")
             /\ stderr[Len(stderr)].val = flags.authenticator)
       /\ keyReads = 0
       /\ cfg.Authenticator # "AuthTypeExternalBrowser"
       /\ ~dsn.built /\ db = "none" /\ issued = <<>>
  /\ (cfg.Authenticator = "AuthTypeExternalBrowser") =>
       (AuthenticatorOnly /\ flags.authenticator = "externalbrowser")

\* a run whose only authentication input is the name "oauth" has passed
\* validation and died on the choice of the authenticator
C14_Witness ==
  /\ AuthenticatorOnly /\ flags.authenticator = "oauth"
  /\ CheckFlags(flags) = ""
  /\ pc = "config" /\ DiedWith("Invalid authenticator")

====
